---- MODULE Spec2Model ----
(***************************************************************************)
(* Model of src/script.js: the quiz runner's session state                 *)
(* (currentQuestions, currentQuestionIndex, score, answeredQuestions) and  *)
(* the part of the page it reads back (the option buttons with their       *)
(* disabled flag and click listener, the feedback line, the navigation     *)
(* buttons, the jump input).  JavaScript arrays are 0-based; they are      *)
(* modelled as sequences and read with At(array, i).                       *)
(***************************************************************************)
EXTENDS Integers, Sequences, FiniteSets, TLC

VARIABLES allQuestions, currentQuestions, currentQuestionIndex, score,
          answeredQuestions, dom, alertMsg, lastOp

vars == <<allQuestions, currentQuestions, currentQuestionIndex, score,
          answeredQuestions, dom, alertMsg, lastOp>>

\* Largest question bank (allQuestions.length) explored.
MaxBank == 3

\* Number of equally spaced values of Math.random() explored.
RandomGrain == 12

---------------------------------------------------------------------------
\* JavaScript array helpers

\* array[i] with a 0-based index
At(array, i) == array[i + 1]

\* Swap with the second assignment lost: array[i] = array[j] only
SwapCopiesOnly(array, i, j) ==
    [k \in 1..Len(array) |-> IF k = i + 1 THEN array[j + 1] ELSE array[k]]

\* [array[i], array[j]] = [array[j], array[i]]
Swap(array, i, j) ==
    [k \in 1..Len(array) |->
        IF k = i + 1 THEN array[j + 1]
        ELSE IF k = j + 1 THEN array[i + 1]
        ELSE array[k]]

\* Map.set(key, value): insert or overwrite
MapSet(map, key, value) ==
    [k \in (DOMAIN map) \cup {key} |-> IF k = key THEN value ELSE map[k]]

\* new Map() / Map.clear()
EmptyMap == [k \in {} |-> 0]

---------------------------------------------------------------------------
\* The question bank (questions.js supplies allQuestions as {q, o, a} records)

\* the correct option index of the k-th pool question: 1, 0, 2, 1, 0, 2, ...
CorrectOf(k) == IF k % 3 = 0 THEN 1 ELSE IF k % 3 = 1 THEN 0 ELSE 2

\* its options: two for most questions, three for every third one
OptionsOf(k) == IF k % 3 = 2 THEN <<"x", "y", "z">> ELSE <<"x", "y">>

\* three different questions; from the fourth on the pool repeats them
Question(k) == [q |-> k % 3, o |-> OptionsOf(k), a |-> CorrectOf(k)]

\* the banks explored: for every length 0..MaxBank the bank Q0, Q1, Q2, ...
\* and a bank in which neighbours repeat (Q0, Q0, Q1, ...)
Banks ==
    { [i \in 1..n |-> Question(i - 1)] : n \in 0..MaxBank } \cup
    { [i \in 1..n |-> Question((i - 1) \div 2)] : n \in 2..MaxBank }

---------------------------------------------------------------------------
\* shuffleArray

\* Math.random() returns a value in [0, 1); the values explored are
\* r / RandomGrain for r in 0 .. RandomGrain - 1
MathRandom == 0..(RandomGrain - 1)

\* "Pick a random index before the current one": Math.floor(Math.random() * i)
RandomIndexBefore(i) == { (r * i) \div RandomGrain : r \in MathRandom }

\* Math.floor(Math.random() * (i + 1))
RandomIndex(i) == { (r * (i + 1)) \div RandomGrain : r \in MathRandom }

\* the values j can take in iteration i, for every i the loop can reach
DrawChoices == [i \in 1..MaxBank |-> RandomIndex(i)]

\* one choice of j for every iteration i = length-1 .. 1 of the loop
Draws(n) == { d \in [1..(n - 1) -> 0..(n - 1)] : \A i \in 1..(n - 1) : d[i] \in DrawChoices[i] }

RECURSIVE ShuffleLoop(_, _, _)
ShuffleLoop(array, i, d) ==
    IF i > 0 THEN ShuffleLoop(Swap(array, i, d[i]), i - 1, d) ELSE array

shuffleArray(array, d) == ShuffleLoop(array, Len(array) - 1, d)

---------------------------------------------------------------------------
\* Text of the jump input and parseInt

Digits == <<"0", "1", "2", "3", "4", "5", "6", "7", "8", "9">>

IsDigit(c) == \E i \in 1..Len(Digits) : Digits[i] = c

DigitVal(c) == (CHOOSE i \in 1..Len(Digits) : Digits[i] = c) - 1

\* String(n): the decimal text of an integer, as a sequence of characters
RECURSIVE FormatNat(_)
FormatNat(n) ==
    IF n < 10 THEN <<Digits[n + 1]>>
    ELSE FormatNat(n \div 10) \o <<Digits[(n % 10) + 1]>>

FormatInt(n) == IF n < 0 THEN <<"-">> \o FormatNat(0 - n) ELSE FormatNat(n)

\* not-a-number is the empty sequence, a number n is <<n>>
NaN == <<>>

RECURSIVE SkipWhitespace(_)
SkipWhitespace(s) ==
    IF s # <<>> /\ Head(s) = " " THEN SkipWhitespace(Tail(s)) ELSE s

\* the value of the longest prefix of decimal digits; NaN when it is empty
RECURSIVE ParseDigits(_, _)
ParseDigits(s, acc) ==
    IF s # <<>> /\ IsDigit(Head(s))
    THEN ParseDigits(Tail(s), <<(IF acc = NaN THEN 0 ELSE acc[1]) * 10 + DigitVal(Head(s))>>)
    ELSE acc

\* parseInt(string): leading whitespace is skipped, one sign is accepted,
\* digits are read up to the first other character, the rest is ignored
parseInt(string) ==
    LET t == SkipWhitespace(string)
        signed == t # <<>> /\ Head(t) \in {"+", "-"}
        body == IF signed THEN Tail(t) ELSE t
        magnitude == ParseDigits(body, NaN)
    IN  IF magnitude = NaN THEN NaN
        ELSE IF signed /\ Head(t) = "-" THEN <<0 - magnitude[1]>>
        ELSE magnitude

\* what the user may have typed into the jump input before pressing the
\* button: every integer from -1 to one past the longest bank, and texts
\* that are not an integer
JumpInputs ==
    { FormatInt(n) : n \in (0 - 1)..(MaxBank + 1) } \cup
    { <<>>, <<"2", "a">>, <<"1", ".", "5">>, <<" ", "2">> }

---------------------------------------------------------------------------
\* The page

\* the elements before the script has run; index.html decides whether the
\* two navigation buttons are delivered disabled (see Init)
InitialDom ==
    [ questionText |-> <<>>,
      progressText |-> <<>>,
      scoreText |-> <<>>,
      optionsContainer |-> <<>>,
      feedbackText |-> "",
      feedbackClass |-> {},
      prevBtnDisabled |-> FALSE,
      nextBtnDisabled |-> FALSE,
      jumpInputValue |-> <<>>,
      jumpInputMax |-> <<>> ]

\* OptionButton taking the "new question" branch for every question: never
\* disabled, always with the click listener
OptionButtonAlwaysNew(question, questionData, i) ==
    [ textContent |-> At(question.o, i),
      index |-> FormatInt(i),
      disabled |-> FALSE,
      classes |-> {"option-btn"},
      onclick |-> <<i, question.a>> ]

\* OptionButton whose listener passes the 1-based number of the option
OptionButtonOneBased(question, questionData, i) ==
    [ textContent |-> At(question.o, i),
      index |-> FormatInt(i),
      disabled |-> questionData # <<>>,
      classes |->
          {"option-btn"}
          \cup (IF questionData # <<>> /\ i = question.a THEN {"correct"} ELSE {})
          \cup (IF questionData # <<>> /\ i = questionData[1].selected /\ i # question.a
                THEN {"incorrect"} ELSE {}),
      onclick |-> IF questionData # <<>> THEN <<>> ELSE <<i + 1, question.a>> ]

\* the button loadQuestion creates for option i of the question; questionData
\* is <<>> when answeredQuestions.get(index) is undefined, else <<record>>
OptionButton(question, questionData, i) ==
    [ textContent |-> At(question.o, i),
      index |-> FormatInt(i),
      disabled |-> questionData # <<>>,
      classes |->
          {"option-btn"}
          \cup (IF questionData # <<>> /\ i = question.a THEN {"correct"} ELSE {})
          \cup (IF questionData # <<>> /\ i = questionData[1].selected /\ i # question.a
                THEN {"incorrect"} ELSE {}),
      \* the arguments (selectedIndex, correctIndex) the click listener
      \* passes to handleOptionClick; <<>> when no listener is attached
      onclick |-> IF questionData # <<>> THEN <<>> ELSE <<i, question.a>> ]

\* answeredQuestions.get(index)
MapGet(map, key) == IF key \in DOMAIN map THEN <<map[key]>> ELSE <<>>

\* loadQuestion without step 5, the feedback of an already answered question
loadQuestionNoFeedback(d, questions, answered, index) ==
    IF index < 0 \/ index >= Len(questions) THEN d
    ELSE
        LET question == At(questions, index)
            questionData == MapGet(answered, index)
        IN  [ d EXCEPT
                !.questionText = <<question.q>>,
                !.progressText = <<index + 1, Len(questions)>>,
                !.optionsContainer =
                    [b \in 1..Len(question.o) |-> OptionButton(question, questionData, b - 1)],
                !.prevBtnDisabled = (index = 0),
                !.nextBtnDisabled = (index = Len(questions) - 1),
                !.feedbackText = "nbsp",
                !.feedbackClass = {} ]

loadQuestion(d, questions, answered, index) ==
    IF index < 0 \/ index >= Len(questions) THEN d
    ELSE
        LET question == At(questions, index)
            questionData == MapGet(answered, index)
            isCorrect == questionData # <<>> /\ questionData[1].selected = questionData[1].correct
        IN  [ d EXCEPT
                !.questionText = <<question.q>>,
                !.progressText = <<index + 1, Len(questions)>>,
                !.optionsContainer =
                    [b \in 1..Len(question.o) |-> OptionButton(question, questionData, b - 1)],
                !.prevBtnDisabled = (index = 0),
                !.nextBtnDisabled = (index = Len(questions) - 1),
                !.feedbackText =
                    IF questionData = <<>> THEN "nbsp"
                    ELSE IF isCorrect THEN "correct" ELSE "incorrect",
                !.feedbackClass =
                    IF questionData = <<>> THEN {}
                    ELSE IF isCorrect THEN {"feedback-correct"} ELSE {"feedback-incorrect"} ]

\* updateScore
updateScore(d, s) == [d EXCEPT !.scoreText = <<s>>]

---------------------------------------------------------------------------
\* Bookkeeping, not program state: alertMsg is the range alert() showed during
\* the last handler run (<<>> when it showed none); lastOp names the last
\* handler run, whether it changed currentQuestionIndex, and the number of
\* answers recorded when it started.

Op(name) ==
    [ op |-> name,
      moved |-> currentQuestionIndex' # currentQuestionIndex,
      had |-> Cardinality(DOMAIN answeredQuestions) ]

---------------------------------------------------------------------------
\* handleOptionClick

\* StoreAnswer with the two fields of the record exchanged
StoreAnswerExchanged(answered, index, selectedIndex, correctIndex) ==
    MapSet(answered, index, [selected |-> correctIndex, correct |-> selectedIndex])

\* 1. answeredQuestions.set(currentQuestionIndex, {selected, correct})
StoreAnswer(answered, index, selectedIndex, correctIndex) ==
    MapSet(answered, index, [selected |-> selectedIndex, correct |-> correctIndex])

\* ScoreAfterClick with score++ moved out of the isCorrect branch
ScoreAfterClickAlways(s, selectedIndex, correctIndex) == s + 1

\* 2. score++ when selectedIndex === correctIndex
ScoreAfterClick(s, selectedIndex, correctIndex) ==
    IF selectedIndex = correctIndex THEN s + 1 ELSE s

\* DomAfterClick without btn.disabled = true
DomAfterClickEnabled(d, b, selectedIndex, correctIndex) ==
    LET isCorrect == selectedIndex = correctIndex
    IN  [ d EXCEPT
            !.feedbackText = IF isCorrect THEN "correct" ELSE "incorrect",
            !.feedbackClass =
                @ \cup (IF isCorrect THEN {"feedback-correct"} ELSE {"feedback-incorrect"}),
            !.optionsContainer =
                [k \in 1..Len(@) |->
                    [ @[k] EXCEPT
                        !.classes =
                            @ \cup (IF k = b
                                    THEN (IF isCorrect THEN {"correct"} ELSE {"incorrect"})
                                    ELSE {})
                              \cup (IF parseInt(d.optionsContainer[k].index) = <<correctIndex>>
                                    THEN {"show-correct"} ELSE {}) ]] ]

\* 2., 3. the feedback line, the clicked button's class, and every button of
\* optionsContainer disabled with the correct one marked
DomAfterClick(d, b, selectedIndex, correctIndex) ==
    LET isCorrect == selectedIndex = correctIndex
    IN  [ d EXCEPT
            !.feedbackText = IF isCorrect THEN "correct" ELSE "incorrect",
            !.feedbackClass =
                @ \cup (IF isCorrect THEN {"feedback-correct"} ELSE {"feedback-incorrect"}),
            !.optionsContainer =
                [k \in 1..Len(@) |->
                    [ @[k] EXCEPT
                        !.disabled = TRUE,
                        !.classes =
                            @ \cup (IF k = b
                                    THEN (IF isCorrect THEN {"correct"} ELSE {"incorrect"})
                                    ELSE {})
                              \cup (IF parseInt(d.optionsContainer[k].index) = <<correctIndex>>
                                    THEN {"show-correct"} ELSE {}) ]] ]

\* handleOptionClick moving on to the next question once the answer is stored
handleOptionClickAdvances(b, selectedIndex, correctIndex) ==
    /\ answeredQuestions' =
           StoreAnswer(answeredQuestions, currentQuestionIndex, selectedIndex, correctIndex)
    /\ score' = ScoreAfterClick(score, selectedIndex, correctIndex)
    /\ currentQuestionIndex' = IF currentQuestionIndex < Len(currentQuestions) - 1
                               THEN currentQuestionIndex + 1
                               ELSE currentQuestionIndex
    /\ dom' = loadQuestion(updateScore(dom, score'), currentQuestions,
                           answeredQuestions', currentQuestionIndex')
    /\ alertMsg' = <<>>
    /\ UNCHANGED <<allQuestions, currentQuestions>>
    /\ lastOp' = Op("answer")

\* the listener of the b-th button (1-based position in optionsContainer)
\* runs handleOptionClick(button, selectedIndex, correctIndex)
handleOptionClick(b, selectedIndex, correctIndex) ==
    /\ answeredQuestions' =
           StoreAnswer(answeredQuestions, currentQuestionIndex, selectedIndex, correctIndex)
    /\ score' = ScoreAfterClick(score, selectedIndex, correctIndex)
    /\ dom' = updateScore(DomAfterClick(dom, b, selectedIndex, correctIndex), score')
    /\ alertMsg' = <<>>
    /\ UNCHANGED <<allQuestions, currentQuestions, currentQuestionIndex>>
    /\ lastOp' = Op("answer")

\* a click on a button that is disabled, or that has no listener, runs no code
ClickIgnored ==
    /\ alertMsg' = <<>>
    /\ UNCHANGED <<allQuestions, currentQuestions, currentQuestionIndex, score,
                   answeredQuestions, dom>>
    /\ lastOp' = Op("ignored")

\* the user clicks the b-th option button on the page
OptionClickAt(b) ==
    LET button == dom.optionsContainer[b]
    IN  IF ~button.disabled /\ button.onclick # <<>>
        THEN handleOptionClick(b, button.onclick[1], button.onclick[2])
        ELSE ClickIgnored

OptionClick == \E b \in 1..Len(dom.optionsContainer) : OptionClickAt(b)

---------------------------------------------------------------------------
\* startQuiz, nextQuestion, prevQuestion, jumpToQuestion

\* DomAfterStart without loadQuestion(0): the buttons of the question shown
\* before the restart stay on the page with their listeners
DomAfterStartNoLoad(d, questions) ==
    updateScore([d EXCEPT !.jumpInputMax = <<Len(questions)>>], 0)

\* the page startQuiz leaves: jumpInput.max, updateScore(), loadQuestion(0)
DomAfterStart(d, questions) ==
    loadQuestion(updateScore([d EXCEPT !.jumpInputMax = <<Len(questions)>>], 0),
                 questions, EmptyMap, 0)

\* startQuiz shuffling allQuestions itself, without the [...allQuestions] copy:
\* the in-place shuffle then reorders the bank
BankAfterStartShared(bank, shuffled) == shuffled

\* allQuestions after startQuiz: shuffleArray works in place on the copy
\* [...allQuestions], so the bank keeps its elements and their order
BankAfterStart(bank, shuffled) == bank

\* startQuiz without answeredQuestions.clear()
startQuizKeepsAnswers ==
    \E d \in Draws(Len(allQuestions)) :
        /\ currentQuestions' = shuffleArray(allQuestions, d)
        /\ currentQuestionIndex' = 0
        /\ score' = 0
        /\ answeredQuestions' = answeredQuestions
        /\ dom' = DomAfterStart(dom, currentQuestions')
        /\ alertMsg' = <<>>
        /\ lastOp' = Op("start")
        /\ allQuestions' = BankAfterStart(allQuestions, currentQuestions')

startQuiz ==
    \E d \in Draws(Len(allQuestions)) :
        /\ currentQuestions' = shuffleArray(allQuestions, d)
        /\ currentQuestionIndex' = 0
        /\ score' = 0
        /\ answeredQuestions' = EmptyMap
        /\ dom' = DomAfterStart(dom, currentQuestions')
        /\ alertMsg' = <<>>
        /\ lastOp' = Op("start")
        /\ allQuestions' = BankAfterStart(allQuestions, currentQuestions')

\* NextIndex with the bound off by one: index < length
NextIndexPastEnd(index, length) == IF index < length THEN index + 1 ELSE index

\* the index nextQuestion leaves
NextIndex(index, length) == IF index < length - 1 THEN index + 1 ELSE index

\* nextQuestion advancing by currentQuestions.shift() instead of by the index
nextQuestionShifts ==
    /\ currentQuestions' = IF Len(currentQuestions) > 1
                           THEN Tail(currentQuestions) ELSE currentQuestions
    /\ currentQuestionIndex' = currentQuestionIndex
    /\ dom' = loadQuestion(dom, currentQuestions', answeredQuestions, currentQuestionIndex)
    /\ alertMsg' = <<>>
    /\ lastOp' = Op("next")
    /\ UNCHANGED <<allQuestions, score, answeredQuestions>>

nextQuestion ==
    /\ currentQuestionIndex' = NextIndex(currentQuestionIndex, Len(currentQuestions))
    /\ dom' = IF currentQuestionIndex < Len(currentQuestions) - 1
              THEN loadQuestion(dom, currentQuestions, answeredQuestions, currentQuestionIndex')
              ELSE dom
    /\ alertMsg' = <<>>
    /\ lastOp' = Op("next")
    /\ UNCHANGED <<allQuestions, currentQuestions, score, answeredQuestions>>

\* the index prevQuestion leaves
PrevIndex(index) == IF index > 0 THEN index - 1 ELSE index

\* prevQuestion without the call of loadQuestion: the index goes back and the
\* page keeps the question it showed
prevQuestionNoLoad ==
    /\ currentQuestionIndex' = PrevIndex(currentQuestionIndex)
    /\ dom' = dom
    /\ alertMsg' = <<>>
    /\ lastOp' = Op("prev")
    /\ UNCHANGED <<allQuestions, currentQuestions, score, answeredQuestions>>

prevQuestion ==
    /\ currentQuestionIndex' = PrevIndex(currentQuestionIndex)
    /\ dom' = IF currentQuestionIndex > 0
              THEN loadQuestion(dom, currentQuestions, answeredQuestions, currentQuestionIndex')
              ELSE dom
    /\ alertMsg' = <<>>
    /\ lastOp' = Op("prev")
    /\ UNCHANGED <<allQuestions, currentQuestions, score, answeredQuestions>>

\* JumpInRange with the number taken as 0-based: num >= 0
JumpInRangeFromZero(num, length) == num # NaN /\ num[1] >= 0 /\ num[1] <= length

\* num >= 1 && num <= currentQuestions.length; every comparison with NaN is false
JumpInRange(num, length) == num # NaN /\ num[1] >= 1 /\ num[1] <= length

\* jumpInput.value reads `value`, the text the user has typed, when the jump
\* button is clicked or Enter is released in the input; the script writes the
\* input only to clear it after a jump
jumpToQuestion(value) ==
    LET num == parseInt(value)
    IN  /\ IF JumpInRange(num, Len(currentQuestions))
           THEN /\ currentQuestionIndex' = num[1] - 1
                /\ dom' = [ loadQuestion(dom, currentQuestions, answeredQuestions,
                                         currentQuestionIndex')
                            EXCEPT !.jumpInputValue = <<>> ]
                /\ alertMsg' = <<>>
           ELSE /\ currentQuestionIndex' = currentQuestionIndex
                /\ dom' = dom
                /\ alertMsg' = <<1, Len(currentQuestions)>>
        /\ lastOp' = Op("jump")
        /\ UNCHANGED <<allQuestions, currentQuestions, score, answeredQuestions>>

JumpClick == \E value \in JumpInputs : jumpToQuestion(value)

---------------------------------------------------------------------------
\* The script's top level: DOMContentLoaded runs startQuiz() once on the page
\* as delivered, for whatever bank questions.js supplies

Init ==
    \E bank \in Banks :
        \E d \in Draws(Len(bank)) :
            /\ allQuestions = bank
            /\ currentQuestions = shuffleArray(bank, d)
            /\ currentQuestionIndex = 0
            /\ score = 0
            /\ answeredQuestions = EmptyMap
            /\ \E prevDisabled, nextDisabled \in BOOLEAN :
                   dom = DomAfterStart([ InitialDom EXCEPT
                                           !.prevBtnDisabled = prevDisabled,
                                           !.nextBtnDisabled = nextDisabled ],
                                       currentQuestions)
            /\ alertMsg = <<>>
            /\ lastOp = [op |-> "start", moved |-> FALSE, had |-> 0]

Next ==
    \/ startQuiz
    \/ OptionClick
    \/ nextQuestion
    \/ prevQuestion
    \/ JumpClick

Spec == Init /\ [][Next]_vars

TypeOK ==
    /\ currentQuestionIndex \in 0..MaxBank
    /\ score \in 0..MaxBank
    /\ DOMAIN answeredQuestions \subseteq 0..(MaxBank - 1)

---------------------------------------------------------------------------
\* Properties

\* Every handler run writes its own name to lastOp, so a step that changes
\* the state is a run of startQuiz exactly when it leaves lastOp.op = "start";
\* likewise for the other handlers.
StartStep == lastOp'.op = "start"
NotStartStep == lastOp'.op # "start"

\* the number of recorded answers whose selected index is the correct one
CorrectCount(answered) ==
    Cardinality({k \in DOMAIN answered : answered[k].selected = answered[k].correct})

\* C1: in every reachable state score equals the number of entries of
\* answeredQuestions whose selected index equals their correct index.
C1_ScoreIsRecount == score = CorrectCount(answeredQuestions)

\* a right and a wrong answer are both on record, after moving between them
C1_Witness ==
    /\ Cardinality(DOMAIN answeredQuestions) >= 2
    /\ score >= 1
    /\ score < Cardinality(DOMAIN answeredQuestions)
    /\ lastOp.op \in {"next", "prev", "jump"}

\* C2: answering is single-shot: a click on any option button while the current
\* position already has an answer runs no handler (the attempt is ignored), and
\* leaves the answer records and the score as they were.
C2_SingleShot ==
    [][ \A b \in 1..Len(dom.optionsContainer) :
            (/\ currentQuestionIndex \in DOMAIN answeredQuestions
             /\ lastOp'.op \in {"answer", "ignored"}
             /\ OptionClickAt(b))
            => /\ lastOp'.op = "ignored"
               /\ answeredQuestions' = answeredQuestions
               /\ score' = score ]_vars

\* a second click arrives on the buttons the first click was made on: they
\* still carry their listeners and only their disabled flag stops it
C2_Witness ==
    /\ lastOp.op = "ignored"
    /\ currentQuestionIndex \in DOMAIN answeredQuestions
    /\ \E b \in 1..Len(dom.optionsContainer) : dom.optionsContainer[b].onclick # <<>>

\* C3: an accepted click on option b of the unanswered current question adds
\* exactly the key currentQuestionIndex, with selected = that option's index and
\* correct = the current question's correct index; every other entry is kept;
\* score grows by 1 when the two are equal and by 0 otherwise.
C3_AnswerEffect ==
    [][ \A b \in 1..Len(dom.optionsContainer) :
            (lastOp'.op = "answer" /\ OptionClickAt(b))
            => /\ currentQuestionIndex \notin DOMAIN answeredQuestions
               /\ DOMAIN answeredQuestions' = DOMAIN answeredQuestions \cup {currentQuestionIndex}
               /\ answeredQuestions'[currentQuestionIndex] =
                      [ selected |-> b - 1,
                        correct |-> At(currentQuestions, currentQuestionIndex).a ]
               /\ \A k \in DOMAIN answeredQuestions : answeredQuestions'[k] = answeredQuestions[k]
               /\ score' = score + (IF b - 1 = At(currentQuestions, currentQuestionIndex).a
                                    THEN 1 ELSE 0) ]_vars

\* a wrong answer has just been recorded next to an earlier right one
C3_Witness ==
    /\ lastOp.op = "answer"
    /\ lastOp.had >= 1
    /\ score = lastOp.had
    /\ answeredQuestions[currentQuestionIndex].selected
           # answeredQuestions[currentQuestionIndex].correct

\* C4: from any session state, startQuiz on a non-empty bank leaves
\* currentQuestionIndex = 0, score = 0 and answeredQuestions empty.
C4_RestartResets ==
    [][ (Len(allQuestions) > 0 /\ StartStep)
        => /\ currentQuestionIndex' = 0
           /\ score' = 0
           /\ DOMAIN answeredQuestions' = {} ]_vars

\* a restart has just discarded a session that stood past the first position
\* with at least two answers
C4_Witness ==
    /\ lastOp.op = "start"
    /\ lastOp.had >= 2
    /\ lastOp.moved
    /\ DOMAIN answeredQuestions = {}
    /\ score = 0

\* how many times x occurs in the array
Occurrences(array, x) == Cardinality({i \in 1..Len(array) : array[i] = x})

\* C5: for every non-empty bank and every outcome of the draws, the shuffled
\* order has the bank's length and holds each bank element as many times as
\* the bank does.
C5_OrderIsPermutation ==
    Len(allQuestions) > 0
    => /\ Len(currentQuestions) = Len(allQuestions)
       /\ \A i \in 1..Len(allQuestions) :
              Occurrences(currentQuestions, allQuestions[i])
                  = Occurrences(allQuestions, allQuestions[i])
       /\ \A i \in 1..Len(currentQuestions) :
              Occurrences(allQuestions, currentQuestions[i]) > 0

\* a bank with a repeated question has been shuffled into a different order
C5_Witness ==
    /\ Len(allQuestions) >= 3
    /\ \E i, j \in 1..Len(allQuestions) : i # j /\ allQuestions[i] = allQuestions[j]
    /\ currentQuestions # allQuestions
    /\ currentQuestions[1] # allQuestions[1]

\* C6: in every reachable state currentQuestionIndex lies in
\* [0, currentQuestions.length).
C6_IndexInRange ==
    /\ currentQuestionIndex >= 0
    /\ currentQuestionIndex < Len(currentQuestions)

\* C7: navigation is clamped.  prevQuestion at position 0 leaves the index 0
\* and nextQuestion at the last position leaves it unchanged, neither raising
\* an alert; at every other position of the order prevQuestion lowers the
\* index by exactly 1 and nextQuestion raises it by exactly 1.
C7_NavigationClamped ==
    [][ LET last == Len(currentQuestions) - 1
        IN  /\ (lastOp'.op = "next" /\ nextQuestion)
               => /\ alertMsg' = <<>>
                  /\ currentQuestionIndex = last
                     => currentQuestionIndex' = currentQuestionIndex
                  /\ currentQuestionIndex \in 0..(last - 1)
                     => currentQuestionIndex' = currentQuestionIndex + 1
            /\ (lastOp'.op = "prev" /\ prevQuestion)
               => /\ alertMsg' = <<>>
                  /\ currentQuestionIndex = 0
                     => currentQuestionIndex' = 0
                  /\ currentQuestionIndex \in 1..last
                     => currentQuestionIndex' = currentQuestionIndex - 1 ]_vars

\* nextQuestion has just run at the last of three positions and stayed there
C7_Witness ==
    /\ lastOp.op = "next"
    /\ Len(currentQuestions) >= 3
    /\ currentQuestionIndex = Len(currentQuestions) - 1
    /\ ~lastOp.moved
    /\ alertMsg = <<>>

\* the integers tried as jump targets
JumpNumbers == (0 - 1)..(MaxBank + 1)

\* C8: for every integer n, jumping with the text of n succeeds (no alert) iff
\* 1 <= n <= currentQuestions.length; on success currentQuestionIndex = n - 1;
\* on failure the index, the answers, the score and the order are unchanged
\* and the alert names the range 1 .. currentQuestions.length.
C8_JumpRange ==
    [][ \A n \in JumpNumbers :
            (lastOp'.op = "jump" /\ jumpToQuestion(FormatInt(n)))
            => IF 1 <= n /\ n <= Len(currentQuestions)
               THEN /\ alertMsg' = <<>>
                    /\ currentQuestionIndex' = n - 1
               ELSE /\ alertMsg' = <<1, Len(currentQuestions)>>
                    /\ currentQuestionIndex' = currentQuestionIndex
                    /\ answeredQuestions' = answeredQuestions
                    /\ score' = score
                    /\ currentQuestions' = currentQuestions ]_vars

\* a jump has just failed in a session of three questions that stood at the
\* second position with an answer on record
C8_Witness ==
    /\ lastOp.op = "jump"
    /\ alertMsg = <<1, 3>>
    /\ Len(currentQuestions) = 3
    /\ currentQuestionIndex = 1
    /\ ~lastOp.moved
    /\ lastOp.had >= 1
    /\ Cardinality(DOMAIN answeredQuestions) = lastOp.had

\* C9: every step other than startQuiz keeps every key of answeredQuestions
\* with its record; only startQuiz empties the map.
C9_AnswersOnlyGrow ==
    [][ NotStartStep
        => \A k \in DOMAIN answeredQuestions :
               /\ k \in DOMAIN answeredQuestions'
               /\ answeredQuestions'[k] = answeredQuestions[k] ]_vars

\* every question of a three-question session is answered and the user has
\* walked back over them and clicked an option again
C9_Witness ==
    /\ Len(currentQuestions) = 3
    /\ DOMAIN answeredQuestions = 0..2
    /\ lastOp.op = "ignored"
    /\ \A b \in 1..Len(dom.optionsContainer) : dom.optionsContainer[b].onclick = <<>>

\* the option indices the page marks as the user's pick: the button classed
\* incorrect, or, when there is none, the button classed correct
ShownSelected(d) ==
    LET marked(class) ==
            {b - 1 : b \in {c \in 1..Len(d.optionsContainer) :
                                class \in d.optionsContainer[c].classes}}
    IN  IF marked("incorrect") # {} THEN marked("incorrect") ELSE marked("correct")

\* the page shows the question as answered with option s, for a question
\* whose correct index is a
ShowsAnswered(d, s, a) ==
    /\ d.optionsContainer # <<>>
    /\ \A b \in 1..Len(d.optionsContainer) : d.optionsContainer[b].disabled
    /\ ShownSelected(d) = {s}
    /\ d.feedbackText \in {"correct", "incorrect"}
    /\ d.feedbackText = "correct" <=> s = a
    /\ d.feedbackClass = (IF s = a THEN {"feedback-correct"} ELSE {"feedback-incorrect"})

\* C10: answers persist across re-visits: when a step other than startQuiz
\* ends at a position p that already had an answer with option s, the page
\* shows p as answered with s, every option disabled, and the feedback
\* 'correct' exactly when s is the question's correct index.
C10_AnswerShownOnRevisit ==
    [][ NotStartStep
        => \A p \in DOMAIN answeredQuestions :
               currentQuestionIndex' = p
               => ShowsAnswered(dom', answeredQuestions[p].selected,
                                At(currentQuestions, p).a) ]_vars

\* with two or more answers on record the user has moved to a position
\* answered wrongly earlier
C10_Witness ==
    /\ lastOp.op \in {"next", "prev", "jump"}
    /\ lastOp.moved
    /\ currentQuestionIndex \in DOMAIN answeredQuestions
    /\ Cardinality(DOMAIN answeredQuestions) >= 2
    /\ answeredQuestions[currentQuestionIndex].selected
           # answeredQuestions[currentQuestionIndex].correct
    /\ dom.feedbackText = "incorrect"

\* C11: startQuiz on an empty bank is refused: the failure is signalled to the
\* user, the session and the page stay as they were before the script ran
\* (nothing is rendered), and no later handler runs on the empty order.
C11_EmptyBankRefused ==
    Len(allQuestions) = 0
    => /\ lastOp.op = "start"
       /\ alertMsg # <<>>
       /\ dom.scoreText = InitialDom.scoreText
       /\ dom.jumpInputMax = InitialDom.jumpInputMax
       /\ dom.questionText = InitialDom.questionText
       /\ dom.optionsContainer = InitialDom.optionsContainer

\* texts that are not the decimal text of an integer: empty, digits followed
\* by another character, a fractional number
NonIntegerTexts == { <<>>, <<"2", "a">>, <<"1", ".", "5">> }

\* C12: a jump with a text that is not an integer fails: the alert names the
\* range 1 .. currentQuestions.length and currentQuestionIndex is unchanged.
C12_NonIntegerJumpFails ==
    [][ \A value \in NonIntegerTexts :
            (lastOp'.op = "jump" /\ jumpToQuestion(value))
            => /\ alertMsg' = <<1, Len(currentQuestions)>>
               /\ currentQuestionIndex' = currentQuestionIndex ]_vars

\* the option indices of a question: 0 .. options.length - 1
ValidOptions(question) == 0..(Len(question.o) - 1)

C15_OrderFixedBetweenRestarts ==
    [][NotStartStep => currentQuestions' = currentQuestions]_vars

\* in an order that differs from the bank, answers were recorded and a jump
\* has just failed
C15_Witness ==
    /\ lastOp.op = "jump"
    /\ alertMsg # <<>>
    /\ Len(currentQuestions) = 3
    /\ currentQuestions # allQuestions
    /\ Cardinality(DOMAIN answeredQuestions) >= 2
    /\ currentQuestionIndex = 2

\* C16: in every state the navigation buttons match the position: prevBtn is
\* disabled exactly when currentQuestionIndex = 0 and nextBtn is disabled
\* exactly when currentQuestionIndex = currentQuestions.length - 1.
C16_NavButtonsMatchPosition ==
    /\ dom.prevBtnDisabled <=> currentQuestionIndex = 0
    /\ dom.nextBtnDisabled <=> currentQuestionIndex = Len(currentQuestions) - 1

\* the rearrangements of the positions 1 .. n
Bijections(n) ==
    { p \in [1..n -> 1..n] : \A i, j \in 1..n : i # j => p[i] # p[j] }

\* every ordering of the elements of the array
Orderings(array) ==
    { [i \in 1..Len(array) |-> array[p[i]]] : p \in Bijections(Len(array)) }

AcceptsClick(button) == ~button.disabled /\ button.onclick # <<>>

\* C18: in every state the page shows the question at currentQuestionIndex
\* (its text, its number, one button per option, in order), each of its
\* buttons accepts a click exactly when that position has no entry in
\* answeredQuestions, and a button's listener carries that question's correct
\* index; so a click can only record an answer for the displayed question
\* while it is unanswered.  With an empty order the page shows no question
\* and no button.
C18_PageShowsCurrentQuestion ==
    IF Len(currentQuestions) = 0
    THEN /\ dom.questionText = InitialDom.questionText
         /\ dom.optionsContainer = <<>>
    ELSE /\ currentQuestionIndex \in 0..(Len(currentQuestions) - 1)
         /\ LET question == At(currentQuestions, currentQuestionIndex)
            IN  /\ dom.questionText = <<question.q>>
                /\ dom.progressText = <<currentQuestionIndex + 1, Len(currentQuestions)>>
                /\ Len(dom.optionsContainer) = Len(question.o)
                /\ \A b \in 1..Len(dom.optionsContainer) :
                       LET button == dom.optionsContainer[b]
                       IN  /\ button.textContent = At(question.o, b - 1)
                           /\ AcceptsClick(button)
                                  <=> currentQuestionIndex \notin DOMAIN answeredQuestions
                           /\ button.onclick # <<>>
                                  => button.onclick = <<b - 1, question.a>>

\* a jump has moved from a session with answers to an unanswered question,
\* whose three buttons all accept a click
C18_Witness ==
    /\ lastOp.op = "jump"
    /\ lastOp.moved
    /\ lastOp.had >= 1
    /\ currentQuestionIndex \notin DOMAIN answeredQuestions
    /\ Len(dom.optionsContainer) = 3
    /\ \A b \in 1..Len(dom.optionsContainer) : AcceptsClick(dom.optionsContainer[b])

\* C19: in every state, every key k of answeredQuestions is a position of
\* currentQuestions and the correct index stored under k is the correct index
\* of the question at that position: the index a listener captured when the
\* question was rendered is never stale, whatever navigation and restarts
\* came before.
C19_StoredCorrectIsCurrent ==
    \A k \in DOMAIN answeredQuestions :
        /\ k \in 0..(Len(currentQuestions) - 1)
        /\ answeredQuestions[k].correct = At(currentQuestions, k).a

\* all three positions of a reordered bank are answered, and the stored
\* correct indices are not all the same
C19_Witness ==
    /\ lastOp.op = "answer"
    /\ currentQuestions # allQuestions
    /\ DOMAIN answeredQuestions = 0..2
    /\ \E k \in DOMAIN answeredQuestions :
           answeredQuestions[k].correct # answeredQuestions[0].correct

\* C20: frame conditions.  A run of nextQuestion, prevQuestion or
\* jumpToQuestion, whether it moves, is clamped or fails, leaves
\* answeredQuestions and score unchanged; a click on an option button,
\* accepted or not, leaves currentQuestionIndex unchanged.
C20_Frame ==
    [][ /\ lastOp'.op \in {"next", "prev", "jump"}
            => /\ answeredQuestions' = answeredQuestions
               /\ score' = score
        /\ lastOp'.op \in {"answer", "ignored"}
            => currentQuestionIndex' = currentQuestionIndex ]_vars

\* prevQuestion has moved back in a session with two answers, both correct
C20_Witness ==
    /\ lastOp.op = "prev"
    /\ lastOp.moved
    /\ lastOp.had = 2
    /\ Cardinality(DOMAIN answeredQuestions) = 2
    /\ score = 2

====
